---- MODULE Spec2Model ----
(***************************************************************************)
(* Model of the DynamoDB export/import engine of                           *)
(* src/apps/api/src/tools/db-export/index.ts (class DynamoDBExporter).     *)
(*                                                                         *)
(* One exporter reads table "src" (export, exportByEntityType,            *)
(* getItemCount), one writes table "dst" (import); both use the same      *)
(* document on disk.  The store (DynamoDB behind the document client) is   *)
(* the environment: it chooses page boundaries, and may fail a call,       *)
(* within the bounds below.                                                *)
(*                                                                         *)
(* Spec and SpecSingle run such sessions, SpecReads sessions of reading    *)
(* operations, SpecRoundTrip sessions of exports and imports, SpecLive one *)
(* import under fairness.  SpecCalls calls extractEntityType, main and the *)
(* block main puts around a command on their own; SpecPair runs the        *)
(* export() of two exporters that share an output directory; SpecAwait     *)
(* follows one operation through its awaits.                               *)
(***************************************************************************)
EXTENDS Integers, Sequences, FiniteSets, TLC

\* ---------------------------------------------------------------- bounds
MaxKey == 2        \* primary-key values 1..MaxKey per table
MaxDocLen == 2     \* longest hand-written import document
MaxErrors == 1     \* store calls that may fail in one session
MaxOps == 2        \* operations run one after the other in one session
LongExtra == 1     \* the long document holds Ceiling + LongExtra records
MaxCalls == 2      \* calls of a function on the same argument
MaxArgs == 3       \* longest command line
MaxClock == 3      \* clock ticks while two exporters run
TicksPerSecond == 2    \* clock ticks in one second
MaxRewind == 2         \* how far below 0 a loop counter is told apart

\* ------------------------------------------------------ program constants
Ceiling == 25      \* "DynamoDB limit" of a batch write, the default batchSize

Keys == 1..MaxKey                       \* keys of the initial tables
LongLen == Ceiling + LongExtra
KeySpace == 1..(IF LongLen > MaxKey THEN LongLen ELSE MaxKey)
KeyAttrs == {"PK", "id", "userId"}

\* ------------------------------------------------------- attribute values
\* An attribute value is a tagged sequence of characters, so that values of
\* different kinds stay comparable: S string, SS string set, M map, and the
\* two non-values "absent" (no such attribute) and "null" (JSON null item).
Val(t, v) == [t |-> t, v |-> v]
Str(s) == Val("S", s)
Absent == Val("absent", <<>>)
NullV == Val("null", <<>>)
EmptyMap == Val("M", <<>>)
StringSet == Val("SS", <<"x">>)

Digit(k) == ToString(k)     \* the decimal numeral of k, as one token
Letter(k) == IF k % 2 = 1 THEN "U" ELSE "O"
LowerLetter(k) == IF k % 2 = 1 THEN "u" ELSE "o"

\* The value of the key attribute of the record with primary key k, in the
\* three key designs: "USER#1"-like, legacy "user-1"-like, plain "1".
KeyVal(ka, k) ==
    CASE ka = "PK" -> Str(<<Letter(k), "#", Digit(k)>>)
      [] ka = "id" -> Str(<<LowerLetter(k), "-", Digit(k)>>)
      [] OTHER     -> Str(<<Digit(k)>>)

\* ---------------------------------------------------------------- records
Item(ka, k, d) ==
    [PK         |-> IF ka = "PK" THEN KeyVal(ka, k) ELSE Absent,
     SK         |-> Absent,
     entityType |-> Absent,
     id         |-> IF ka = "id" THEN KeyVal(ka, k) ELSE Absent,
     userId     |-> IF ka = "userId" THEN KeyVal(ka, k) ELSE Absent,
     data       |-> d]

AllAttrs(v) ==
    [PK |-> v, SK |-> v, entityType |-> v, id |-> v, userId |-> v, data |-> v]

NoItem == AllAttrs(Absent)      \* no record: every attribute is absent
NullItem == AllAttrs(NullV)     \* the JSON value null as a document element

KeyAttrOf(ka, item) ==
    CASE ka = "PK" -> item.PK [] ka = "id" -> item.id [] OTHER -> item.userId

HasKey(ka, item) == \E k \in KeySpace : KeyAttrOf(ka, item) = KeyVal(ka, k)
KeyOf(ka, item) == CHOOSE k \in KeySpace : KeyAttrOf(ka, item) = KeyVal(ka, k)

\* A table is a function from the keys it holds to its records.
EmptyTable == [k \in {} |-> NoItem]
Records(tbl) == {tbl[k] : k \in DOMAIN tbl}
Get(tbl, k) == IF k \in DOMAIN tbl THEN tbl[k] ELSE NoItem
Put(tbl, k, item) ==
    [x \in DOMAIN tbl \cup {k} |-> IF x = k THEN item ELSE tbl[x]]

\* ------------------------------------------------------------ conversions
\* JSON.stringify of what the document client returns: strings and maps
\* survive, a Set has no enumerable properties and is written as {}.
StringifyValue(v) == IF v.t = "SS" THEN EmptyMap ELSE v

JSONstringify(item) ==
    [PK         |-> StringifyValue(item.PK),
     SK         |-> StringifyValue(item.SK),
     entityType |-> StringifyValue(item.entityType),
     id         |-> StringifyValue(item.id),
     userId     |-> StringifyValue(item.userId),
     data       |-> StringifyValue(item.data)]

\* JSON.stringify of an array of records
StringifyAll(items) == [n \in 1..Len(items) |-> JSONstringify(items[n])]

\* ------------------------------------------------------------- classifier
UpperLetters == {"U", "O"}
ToUpper(c) == CASE c = "u" -> "U" [] c = "o" -> "O" [] OTHER -> c
ToUpperCase(s) == [n \in 1..Len(s) |-> ToUpper(s[n])]

RECURSIVE UpperRun(_, _)
UpperRun(s, n) ==
    IF n < Len(s) /\ s[n + 1] \in UpperLetters THEN UpperRun(s, n + 1) ELSE n

\* s.match(/^([A-Z]+)#/): the run length of the tag, 0 when there is no match
MatchTag(s) ==
    LET n == UpperRun(s, 0)
    IN  IF n >= 1 /\ n < Len(s) /\ s[n + 1] = "#" THEN n ELSE 0

RECURSIVE FirstDash(_, _)
FirstDash(s, n) ==
    IF n > Len(s) THEN n ELSE IF s[n] = "-" THEN n ELSE FirstDash(s, n + 1)

\* a number is Val("N", its numeral); 0 is falsy as the empty string is
Num(k) == Val("N", <<Digit(k)>>)
\* a truthiness that takes an empty array and an empty object for false
TruthyNonEmpty(v) ==
    /\ v.t \notin {"absent", "null"}
    /\ ~(v.t = "S" /\ v.v = <<>>)
    /\ ~(v.t = "N" /\ v.v = <<"0">>)
    /\ ~(v.t \in {"A", "M"} /\ v.v = <<>>)

Truthy(v) ==
    /\ v.t \notin {"absent", "null"}
    /\ ~(v.t = "S" /\ v.v = <<>>)
    /\ ~(v.t = "N" /\ v.v = <<"0">>)
IsString(v) == v.t = "S"

\* the value returned: a string, or whatever truthy value entityType holds
extractEntityType(item) ==
    IF Truthy(item.PK) /\ IsString(item.PK) /\ MatchTag(item.PK.v) > 0
    THEN Str(SubSeq(item.PK.v, 1, MatchTag(item.PK.v)))
    ELSE IF Truthy(item.SK) /\ IsString(item.SK) /\ MatchTag(item.SK.v) > 0
    THEN Str(SubSeq(item.SK.v, 1, MatchTag(item.SK.v)))
    ELSE IF Truthy(item.entityType)
    THEN item.entityType
    ELSE IF Truthy(item.id) /\ IsString(item.id)
    THEN Str(ToUpperCase(SubSeq(item.id.v, 1, FirstDash(item.id.v, 1) - 1)))
    ELSE Str(<<"U", "N", "K", "N", "O", "W", "N">>)

\* a value used as a property key is converted to a string
PropertyKey(v) == v.v

\* -------------------------------------------------------------- documents
NoMeta == [itemCount |-> -1, scannedCount |-> -1, totalItems |-> -1, entityTypes |-> -1]

\* A parsed document: the kind of its top-level JSON value, the elements of a
\* top-level array, and the properties import() reads from a top-level
\* object.  Kind "nofile" is no file at the path, "invalid" a file that is
\* not JSON.  A property is a value: Absent, NullV, a string, an array
\* Arr(..) of records, or a map Groups(..) of entity types to record arrays.
Arr(s) == Val("A", s)
Groups(g) == Val("M", g)

Doc(kind, elems, meta, items, byType) ==
    [kind |-> kind, elems |-> elems, metadata |-> meta,
     items |-> items, itemsByType |-> byType]

NoFile == Doc("nofile", <<>>, NoMeta, Absent, Absent)
ArrayDoc(items) == Doc("array", items, NoMeta, Absent, Absent)
ObjectDoc(meta, items, byType) == Doc("object", <<>>, meta, items, byType)

\* const exportData = { metadata: {...}, items }; includeMetadata ? exportData : items
ExportDocument(includeMetadata, items, scannedCount) ==
    IF includeMetadata
    THEN ObjectDoc([itemCount |-> Len(items), scannedCount |-> scannedCount,
                    totalItems |-> -1, entityTypes |-> -1],
                   Arr(StringifyAll(items)), Absent)
    ELSE ArrayDoc(StringifyAll(items))

StringifyGroup(g) == [type |-> g.type, items |-> StringifyAll(g.items)]

\* const exportData = { metadata: {... totalItems, entityTypes ...}, itemsByType }
GroupedDocument(itemsByType, totalItems) ==
    ObjectDoc([itemCount |-> -1, scannedCount |-> -1,
               totalItems |-> totalItems, entityTypes |-> Len(itemsByType)],
              Absent,
              Groups([n \in 1..Len(itemsByType) |-> StringifyGroup(itemsByType[n])]))

\* itemsByType[entityType].push(item), creating the group on first use; the
\* groups keep their insertion order, as the keys of a JS object do.
GroupIndex(byType, ty) ==
    IF \E n \in 1..Len(byType) : byType[n].type = ty
    THEN CHOOSE n \in 1..Len(byType) : byType[n].type = ty
    ELSE 0

PushGrouped(byType, item) ==
    LET ty == PropertyKey(extractEntityType(item))
        n  == GroupIndex(byType, ty)
    IN  IF n = 0
        THEN Append(byType, [type |-> ty, items |-> <<item>>])
        ELSE [byType EXCEPT ![n].items = Append(@, item)]

\* const itemsByType = {}: a plain object inherits the properties of
\* Object.prototype, so itemsByType[entityType] is truthy for these keys
\* before any group exists, and has no push method.  A name is one token.
InheritedKeys ==
    {<<"constructor">>, <<"toString">>, <<"valueOf">>, <<"hasOwnProperty">>, <<"__proto__">>}

\* itemsByType[entityType].push(item) throws TypeError for one of the items
PushThrows(items) ==
    \E n \in 1..Len(items) : PropertyKey(extractEntityType(items[n])) \in InheritedKeys

RECURSIVE GroupAll(_, _)
GroupAll(byType, items) ==
    IF items = <<>> THEN byType
    ELSE GroupAll(PushGrouped(byType, Head(items)), Tail(items))

\* Object.values(data.itemsByType).flat()
RECURSIVE FlatValues(_)
FlatValues(byType) ==
    IF byType = <<>> THEN <<>> ELSE Head(byType).items \o FlatValues(Tail(byType))

\* ------------------------------------------------------------------ state
VARIABLES
    keyAttr,   \* the key attribute of both tables' key schema
    tables,    \* table name -> the table
    file,      \* the document on disk at the path both exporters use
    pc,        \* "idle", or where the running operation is suspended
    cmd,       \* the running (or last) operation and its options
    exp,       \* locals of export() / exportByEntityType()
    imp,       \* locals of import()
    calls,     \* store calls of the running (or last) operation, in order
    pre,       \* tables and file when the running operation started
    done,      \* finished operations, oldest first
    errs,      \* store calls that have failed so far
    opsLeft,   \* operations the session may still start
    input,     \* a function of the module that is called on its own, and its argument
    output,    \* what the calls of that function returned, oldest first
    clock,     \* the time in milliseconds, read by two concurrent exporters
    disk,      \* their output directory: path -> document
    inst,      \* the two exporters: options, table and locals of export()
    flight     \* one operation seen at its awaits: calls sent and not yet settled

\* the variables of one exporter's session, of a function called on its own,
\* and of two concurrent exporters
sessionVars == <<keyAttr, tables, file, pc, cmd, exp, imp, calls, pre, done, errs, opsLeft>>
callVars == <<input, output>>
pairVars == <<clock, disk, inst>>
awaitVars == <<flight>>

vars == <<keyAttr, tables, file, pc, cmd, exp, imp, calls, pre, done, errs, opsLeft,
          input, output, clock, disk, inst, flight>>

NoCmd == [name |-> "none", grouped |-> FALSE, includeMetadata |-> FALSE,
          filterExpression |-> "none", limit |-> 0,
          dryRun |-> FALSE, batchSize |-> 0, overwrite |-> FALSE]
NoExp == [items |-> <<>>, scannedCount |-> 0, lastEvaluatedKey |-> 0,
          scanCount |-> 0, itemsByType |-> <<>>, totalItems |-> 0, count |-> 0]
NoImp == [items |-> <<>>, batchSize |-> 0, i |-> 0, j |-> 0,
          imported |-> 0, failed |-> 0, delays |-> 0]
NoResult == [imported |-> 0, failed |-> 0, skipped |-> 0]

\* ------------------------------------------------------------ input sets
SrcData == {Str(<<"a">>), StringSet}
DstData == {Str(<<"b">>)}
DocData == {Str(<<"a">>)}

TablesOver(ka, D) ==
    {t \in UNION {[S -> {Item(ka, k, d) : k \in Keys, d \in D}] : S \in SUBSET Keys} :
        \A k \in DOMAIN t : KeyOf(ka, t[k]) = k}

\* tables whose records carry an entityType attribute
TypeData == {Str(<<"t">>), Str(<<"s">>), Str(<<"constructor">>)}

TypedTables(ka) ==
    {t \in UNION {[S -> {[Item(ka, k, Str(<<"a">>)) EXCEPT !.entityType = ty] :
                             k \in Keys, ty \in TypeData}] : S \in SUBSET Keys} :
        \A k \in DOMAIN t : KeyOf(ka, t[k]) = k}

DocElems(ka) == {Item(ka, k, d) : k \in Keys, d \in DocData} \cup {NullItem}

SeqsUpTo(S, n) == UNION {[1..m -> S] : m \in 0..n}

\* Ceiling + LongExtra records with the keys 1, 2, ...
LongItems(ka) == [n \in 1..LongLen |-> Item(ka, n, Str(<<"a">>))]

UserDocs(ka) ==
    {ArrayDoc(s) : s \in SeqsUpTo(DocElems(ka), MaxDocLen)} \cup {ArrayDoc(LongItems(ka))}

\* the same records in the two shapes the tool writes with metadata
ShapedDocs(ka) ==
    UNION {{ExportDocument(TRUE, s, Len(s)), GroupedDocument(GroupAll(<<>>, s), Len(s))} :
              s \in SeqsUpTo(DocElems(ka), MaxDocLen)}

\* Other files a user may hand to import(): no JSON at all, the values null
\* and 7, and objects whose items and itemsByType properties are absent, of
\* another type, or both present.
OtherDocs(ka) ==
    LET recs == SeqsUpTo({Item(ka, k, d) : k \in Keys, d \in DocData}, 1)
        itemsProps == {Absent, Str(<<"x">>)} \cup {Arr(r) : r \in recs}
        byTypeProps == {Absent, NullV} \cup {Groups(GroupAll(<<>>, r)) : r \in recs}
    IN  {Doc(k, <<>>, NoMeta, Absent, Absent) : k \in {"invalid", "null", "scalar"}}
        \cup {ObjectDoc(NoMeta, i, g) : i \in itemsProps, g \in byTypeProps}

BatchSizes == {-1, 0, 1, Ceiling + 1}    \* 0: options.batchSize not given

\* no operation is followed through its awaits
NoFlight ==
    [op |-> "none", overwrite |-> FALSE, n |-> 0, batchSize |-> 0, i |-> 0, j |-> 0,
     pages |-> 0, at |-> "end", pending |-> 0, timers |-> 0, log |-> <<>>]

NoInput == [fn |-> "none", arg |-> <<>>]
EmptyDisk == [p \in {} |-> NoFile]

\* nothing but the session runs
SessionOnly ==
    /\ input = NoInput
    /\ output = <<>>
    /\ clock = 0
    /\ flight = NoFlight
    /\ disk = EmptyDisk
    /\ inst = <<>>

Idle ==
    /\ pc = "idle"
    /\ cmd = NoCmd
    /\ exp = NoExp
    /\ imp = NoImp
    /\ calls = <<>>
    /\ pre = [tables |-> tables, file |-> file]
    /\ done = <<>>
    /\ errs = 0

\* A session: either a source table to export and no document yet, or a
\* document on disk to import.  A session runs MaxOps operations one after
\* the other; a session that starts from the long document runs one.
Init ==
    /\ keyAttr \in KeyAttrs
    /\ \/ /\ file = NoFile
          /\ tables \in {[src |-> s, dst |-> d] :
                            s \in TablesOver(keyAttr, SrcData),
                            d \in TablesOver(keyAttr, DstData)}
       \/ /\ file \in UserDocs(keyAttr)
          /\ tables \in {[src |-> EmptyTable, dst |-> d] :
                            d \in TablesOver(keyAttr, DstData)}
    /\ opsLeft = IF Len(file.elems) > MaxDocLen THEN 1 ELSE MaxOps
    /\ Idle
    /\ SessionOnly

\* A session of one operation: on a source table, whose records may have an
\* entityType attribute, or on a file: a user's array, which goes into a
\* table that may hold records already (the long one into an empty table),
\* a document in the flat or grouped shape with metadata, or a file of
\* other content.
InitSingle ==
    /\ keyAttr \in KeyAttrs
    /\ \/ /\ file = NoFile
          /\ tables \in {[src |-> s, dst |-> EmptyTable] :
                            s \in TablesOver(keyAttr, SrcData) \cup TypedTables(keyAttr)}
       \/ /\ file \in UserDocs(keyAttr) \cup ShapedDocs(keyAttr) \cup OtherDocs(keyAttr)
          /\ tables \in {[src |-> EmptyTable, dst |-> d] :
                            d \in IF file.kind = "array" /\ Len(file.elems) <= MaxDocLen
                                     THEN TablesOver(keyAttr, DstData)
                                     ELSE {EmptyTable}}
    /\ opsLeft = 1
    /\ Idle
    /\ SessionOnly

\* ------------------------------------------------- functions on their own
\* Records for extractEntityType: each of PK, SK, entityType and id absent,
\* empty, a number, or a string with or without the separator the rule for
\* that attribute looks for.
TagInputs ==
    {Absent, Str(<<>>), Num(7), Str(<<"U", "#", "1">>), Str(<<"u", "#", "1">>)}
TypeInputs == {Absent, Str(<<>>), Num(7), Str(<<"t">>)}
IdInputs ==
    {Absent, Str(<<>>), Num(7), Str(<<"u", "-", "1">>), Str(<<"-", "1">>), Str(<<"u", "1">>)}

ClassifierInputs ==
    {[NoItem EXCEPT !.PK = pk, !.SK = sk, !.entityType = ty, !.id = id] :
        pk \in TagInputs, sk \in TagInputs, ty \in TypeInputs, id \in IdInputs}

\* Command lines: the arguments after "node index.js".  An argument is one
\* token; those that start with "-" are listed, as is the one that
\* toLowerCase() changes.
CliTokens ==
    {"export", "import", "IMPORT", "count", "help", "frobnicate", "tbl",
     "-t", "-f", "--dry-run", "-h"}
StartsWithDash(arg) == arg \in {"-t", "-f", "--dry-run", "-h"}
ToLowerCase(arg) == IF arg = "IMPORT" THEN "import" ELSE arg

CommandLines == SeqsUpTo(CliTokens, MaxArgs)

\* args.findIndex((arg) => !arg.startsWith("-")), counted from 1; 0 for -1
RECURSIVE FindCommandIndex(_, _)
FindCommandIndex(args, n) ==
    IF n > Len(args) THEN 0
    ELSE IF ~StartsWithDash(args[n]) THEN n
    ELSE FindCommandIndex(args, n + 1)

\* the flag loop of parseArgs; "" stands for undefined
RECURSIVE ParseFlags(_, _, _)
ParseFlags(args, i, result) ==
    IF i > Len(args) THEN result
    ELSE LET arg == args[i]
             nextArg == IF i + 1 <= Len(args) THEN args[i + 1] ELSE ""
         IN  CASE arg = "-t" -> ParseFlags(args, i + 2, [result EXCEPT !.table = nextArg])
               [] arg = "-f" -> ParseFlags(args, i + 2, [result EXCEPT !.file = nextArg])
               [] arg = "--dry-run" -> ParseFlags(args, i + 1, [result EXCEPT !.dryRun = TRUE])
               [] arg = "-h" -> ParseFlags(args, i + 1, [result EXCEPT !.command = "help"])
               [] OTHER -> ParseFlags(args, i + 1, result)

parseArgs(args) ==
    LET commandIndex == FindCommandIndex(args, 1)
        cmdName == IF commandIndex # 0 THEN ToLowerCase(args[commandIndex]) ELSE ""
        result == [command |-> IF cmdName \in {"export", "import", "count", "help"}
                               THEN cmdName ELSE "help",
                   table |-> "", file |-> "", dryRun |-> FALSE]
    IN  ParseFlags(args, 1, result)

ExitByCommand == -1     \* the exit code is that of the command main runs

\* main() up to the call of the command: the command it runs, or "none" and
\* the code of the process.exit it reaches first
main(argv) ==
    LET args == parseArgs(argv)
    IN  IF args.command = "help" \/ Len(argv) = 0
        THEN [runs |-> "none", exit |-> 0]
        ELSE CASE args.command = "export" -> [runs |-> "export", exit |-> ExitByCommand]
               [] args.command = "import" ->
                    IF args.file = ""
                    THEN [runs |-> "none", exit |-> 1]
                    ELSE [runs |-> "import", exit |-> ExitByCommand]
               [] args.command = "count" -> [runs |-> "getItemCount", exit |-> ExitByCommand]
               [] OTHER -> [runs |-> "none", exit |-> 1]

\* try { await the command; process.exit(0) } catch (error) { process.exit(1) }
ExitCode(status) == IF status = "returned" THEN 0 ELSE 1

\* The block main() puts around each command:
\*   try { await <command>; process.exit(0) }
\*   catch (error) { process.exit(1) }
\*   finally { await exporter.close() }
\* as the statements control passes through, in order, when the command
\* returned or raised an error.
TryBlock(command, status) ==
    IF status = "returned" THEN <<command, "process.exit">> ELSE <<command>>
CatchBlock(status) == IF status = "raised" THEN <<"process.exit">> ELSE <<>>
FinallyBlock == <<"exporter.close">>

\* process.exit() ends the process inside the call: of a list of statements
\* those up to the first process.exit are executed
RECURSIVE UntilExit(_)
UntilExit(statements) ==
    IF statements = <<>> THEN <<>>
    ELSE IF Head(statements) = "process.exit" THEN <<"process.exit">>
    ELSE <<Head(statements)>> \o UntilExit(Tail(statements))

\* the statements the process executes for a command and its outcome
CommandBlock(command, status) ==
    UntilExit(TryBlock(command, status) \o CatchBlock(status) \o FinallyBlock)

Commands == {"export", "exportByEntityType", "import", "getItemCount"}
Outcomes == {"returned", "raised"}

InitCalls ==
    /\ input \in {[fn |-> "extractEntityType", arg |-> r] : r \in ClassifierInputs}
                 \cup {[fn |-> "main", arg |-> a] : a \in CommandLines}
                 \cup {[fn |-> "command", arg |-> <<c, o>>] :
                           c \in Commands, o \in Outcomes}
    /\ output = <<>>
    /\ keyAttr = "PK"
    /\ tables = [src |-> EmptyTable, dst |-> EmptyTable]
    /\ file = NoFile
    /\ opsLeft = 0
    /\ Idle
    /\ clock = 0
    /\ flight = NoFlight
    /\ disk = EmptyDisk
    /\ inst = <<>>

\* this.extractEntityType(item), called once more on the same record
Classify ==
    /\ input.fn = "extractEntityType"
    /\ Len(output) < MaxCalls
    /\ output' = Append(output, extractEntityType(input.arg))
    /\ UNCHANGED <<input, sessionVars, pairVars, awaitVars>>

\* main(), run once more on the same command line
Main ==
    /\ input.fn = "main"
    /\ Len(output) < MaxCalls
    /\ output' = Append(output, main(input.arg))
    /\ UNCHANGED <<input, sessionVars, pairVars, awaitVars>>

\* the block around a command, run once more with the same outcome
RunCommand ==
    /\ input.fn = "command"
    /\ Len(output) < MaxCalls
    /\ output' = Append(output, CommandBlock(input.arg[1], input.arg[2]))
    /\ UNCHANGED <<input, sessionVars, pairVars, awaitVars>>

NextCalls == Classify \/ Main \/ RunCommand

SpecCalls == InitCalls /\ [][NextCalls]_vars

\* ------------------------------------------------------------- bookkeeping
MayStart == pc = "idle" /\ opsLeft > 0

\* one store call: the command, whether it returned, its size and position
Call(op, ok, n, at) ==
    [op |-> op, ok |-> ok, n |-> n, at |-> at, cursor |-> 0, scanned |-> 0]

\* one answered Scan request: its ExclusiveStartKey, and the Items length,
\* ScannedCount and LastEvaluatedKey of the response
ScanCall(at, response) ==
    [op |-> "Scan", ok |-> TRUE, n |-> Len(response.Items), at |-> at,
     cursor |-> response.LastEvaluatedKey, scanned |-> response.ScannedCount]

\* a finished operation; the operations that end after a store call raise
\* only what the store raised
Finished(status, result, callLog, newTables, newFile) ==
    [cmd |-> cmd, status |-> status, result |-> result, calls |-> callLog,
     error |-> IF status = "raised" THEN "StoreError" ELSE "none",
     pre |-> pre, post |-> [tables |-> newTables, file |-> newFile]]

\* the operation ends: it returns (status "returned") or throws ("raised")
Finish(status, result, callLog, newTables, newFile) ==
    /\ pc' = "idle"
    /\ calls' = callLog
    /\ tables' = newTables
    /\ file' = newFile
    /\ done' = Append(done, Finished(status, result, callLog, newTables, newFile))

\* ----------------------------------------------------------------- export
\* One Scan request: the store evaluates the keys after the cursor up to a
\* page end m of its choosing; LastEvaluatedKey is m unless the table ends.
PageItems(tbl, from, m) ==
    LET ks == {k \in DOMAIN tbl : k > from /\ k <= m}
        F[n \in 0..MaxKey] ==
            IF n = 0 THEN <<>>
            ELSE IF n \in ks THEN Append(F[n - 1], tbl[n]) ELSE F[n - 1]
    IN  F[MaxKey]

Page(tbl, from, m) ==
    [Items |-> PageItems(tbl, from, m),
     ScannedCount |-> Len(PageItems(tbl, from, m)),
     LastEvaluatedKey |-> IF m < MaxKey THEN m ELSE 0]

\* options.filterExpression: not given, or an expression the store evaluates
\* on each record it reads; the one used here keeps the records whose data
\* attribute is a string, "attribute_type(#d, :s)"
FilterExpressions == {"none", "dataIsString"}

Matches(filterExpression, item) ==
    filterExpression = "none" \/ item.data.t = "S"

\* a store whose ScannedCount counts the records that passed the filter
ScanResponseCountsPassed(tbl, from, m, filterExpression) ==
    LET page == Page(tbl, from, m)
        Passes(item) == Matches(filterExpression, item)
    IN  [Items |-> SelectSeq(page.Items, Passes),
         Count |-> Len(SelectSeq(page.Items, Passes)),
         ScannedCount |-> Len(SelectSeq(page.Items, Passes)),
         LastEvaluatedKey |-> page.LastEvaluatedKey]

\* The response to a Scan with a FilterExpression: ScannedCount counts the
\* records evaluated, Items and Count those that passed the filter.
ScanResponse(tbl, from, m, filterExpression) ==
    LET page == Page(tbl, from, m)
        Passes(item) == Matches(filterExpression, item)
    IN  [Items |-> SelectSeq(page.Items, Passes),
         Count |-> Len(SelectSeq(page.Items, Passes)),
         ScannedCount |-> page.ScannedCount,
         LastEvaluatedKey |-> page.LastEvaluatedKey]

\* options.limit, handed to every Scan request as Limit; 0: not given
Limits == {0, 1}

\* a store that takes no notice of Limit
PageEndsIgnoringLimit(tbl, from, limit) == (from + 1)..MaxKey

\* The key positions at which the store may end the page of a Scan request
\* that starts after from: anywhere (the size of a page is the store's
\* choice), but with a Limit after at most that many records evaluated.
PageEnds(tbl, from, limit) ==
    {m \in (from + 1)..MaxKey :
        limit = 0 \/ Cardinality({k \in DOMAIN tbl : k > from /\ k <= m}) <= limit}

\* a scan loop that never asks for another page
MorePagesNever(response) == FALSE

\* while (lastEvaluatedKey)
MorePages(response) == response.LastEvaluatedKey # 0

\* export() / exportByEntityType() up to the first await of the scan loop
ExportStart ==
    /\ MayStart
    /\ \E g \in BOOLEAN, meta \in BOOLEAN, f \in FilterExpressions, l \in Limits :
          cmd' = [NoCmd EXCEPT !.name = IF g THEN "exportByEntityType" ELSE "export",
                               !.grouped = g, !.includeMetadata = meta,
                               !.filterExpression = f, !.limit = l]
    /\ exp' = NoExp
    /\ pc' = "scan"
    /\ calls' = <<>>
    /\ pre' = [tables |-> tables, file |-> file]
    /\ opsLeft' = opsLeft - 1
    /\ UNCHANGED <<keyAttr, tables, file, imp, done, errs>>
    /\ UNCHANGED <<callVars, pairVars, awaitVars>>

\* export(): a page arrives; the loop goes on or the document is written
ExportScanPage ==
    /\ pc = "scan" /\ cmd.name = "export"
    /\ \E m \in PageEnds(tables.src, exp.lastEvaluatedKey, cmd.limit) :
          LET response == ScanResponse(tables.src, exp.lastEvaluatedKey, m,
                                       cmd.filterExpression)
              items == exp.items \o response.Items
              scannedCount == exp.scannedCount + response.ScannedCount
              log == Append(calls, ScanCall(exp.lastEvaluatedKey, response))
          IN  /\ exp' = [exp EXCEPT !.items = items,
                                    !.scannedCount = scannedCount,
                                    !.scanCount = @ + 1,
                                    !.lastEvaluatedKey = response.LastEvaluatedKey]
              /\ IF MorePages(response)
                 THEN /\ calls' = log
                      /\ UNCHANGED <<tables, file, pc, done>>
                 ELSE Finish("returned", NoResult, log, tables,
                             ExportDocument(cmd.includeMetadata, items, scannedCount))
    /\ UNCHANGED <<keyAttr, cmd, imp, pre, errs, opsLeft>>
    /\ UNCHANGED <<callVars, pairVars, awaitVars>>

\* exportByEntityType(): the same loop, grouping each page's records
GroupedScanPage ==
    /\ pc = "scan" /\ cmd.name = "exportByEntityType"
    /\ \E m \in PageEnds(tables.src, exp.lastEvaluatedKey, cmd.limit) :
          LET response == Page(tables.src, exp.lastEvaluatedKey, m)
              itemsByType == GroupAll(exp.itemsByType, response.Items)
              totalItems == exp.totalItems + Len(response.Items)
              log == Append(calls, ScanCall(exp.lastEvaluatedKey, response))
          IN  IF PushThrows(response.Items)
              THEN \* catch (error) { ...; throw error }
                   /\ exp' = [exp EXCEPT !.scanCount = @ + 1]
                   /\ pc' = "idle"
                   /\ calls' = log
                   /\ done' = Append(done,
                         [Finished("raised", NoResult, log, tables, file)
                             EXCEPT !.error = "TypeErrorPush"])
                   /\ UNCHANGED <<tables, file>>
              ELSE /\ exp' = [exp EXCEPT !.itemsByType = itemsByType,
                                         !.totalItems = totalItems,
                                         !.scanCount = @ + 1,
                                         !.lastEvaluatedKey = response.LastEvaluatedKey]
                   /\ IF MorePages(response)
                      THEN /\ calls' = log
                           /\ UNCHANGED <<tables, file, pc, done>>
                      ELSE Finish("returned", NoResult, log, tables,
                                  GroupedDocument(itemsByType, totalItems))
    /\ UNCHANGED <<keyAttr, cmd, imp, pre, errs, opsLeft>>
    /\ UNCHANGED <<callVars, pairVars, awaitVars>>

\* getItemCount() up to its first await
CountStart ==
    /\ MayStart
    /\ cmd' = [NoCmd EXCEPT !.name = "getItemCount"]
    /\ exp' = NoExp
    /\ pc' = "scan"
    /\ calls' = <<>>
    /\ pre' = [tables |-> tables, file |-> file]
    /\ opsLeft' = opsLeft - 1
    /\ UNCHANGED <<keyAttr, tables, file, imp, done, errs>>
    /\ UNCHANGED <<callVars, pairVars, awaitVars>>

\* getItemCount(): a page of a Select: "COUNT" scan without filter arrives
CountPage ==
    /\ pc = "scan" /\ cmd.name = "getItemCount"
    /\ \E m \in (exp.lastEvaluatedKey + 1)..MaxKey :
          LET response == ScanResponse(tables.src, exp.lastEvaluatedKey, m, "none")
              count == exp.count + response.Count
              log == Append(calls, ScanCall(exp.lastEvaluatedKey, response))
          IN  /\ exp' = [exp EXCEPT !.count = count,
                                    !.lastEvaluatedKey = response.LastEvaluatedKey]
              /\ IF MorePages(response)
                 THEN /\ calls' = log
                      /\ UNCHANGED <<tables, file, pc, done>>
                 ELSE Finish("returned", count, log, tables, file)
    /\ UNCHANGED <<keyAttr, cmd, imp, pre, errs, opsLeft>>
    /\ UNCHANGED <<callVars, pairVars, awaitVars>>

\* a scan loop that swallowed a failed page fetch and asked again
ScanFailsRetry ==
    /\ pc = "scan" /\ errs < MaxErrors
    /\ errs' = errs + 1
    /\ exp' = [exp EXCEPT !.scanCount = @ + 1]
    /\ calls' = Append(calls, Call("Scan", FALSE, 0, exp.lastEvaluatedKey))
    /\ UNCHANGED <<keyAttr, tables, file, pc, cmd, imp, pre, done, opsLeft>>
    /\ UNCHANGED <<callVars, pairVars, awaitVars>>

\* docClient.send(ScanCommand) rejects: catch (error) { ...; throw error };
\* in getItemCount() nothing catches it
ScanFails ==
    /\ pc = "scan" /\ errs < MaxErrors
    /\ errs' = errs + 1
    /\ exp' = [exp EXCEPT !.scanCount = @ + 1]
    /\ Finish("raised", NoResult, Append(calls, Call("Scan", FALSE, 0, exp.lastEvaluatedKey)), tables, file)
    /\ UNCHANGED <<keyAttr, cmd, imp, pre, opsLeft>>
    /\ UNCHANGED <<callVars, pairVars, awaitVars>>

\* ------------------------------------------------- two exporters at once
\* Two DynamoDBExporter instances, one per region, each scanning the table
\* of its region; both write into the same output directory, and neither
\* has options.outputFile.
Instances == {1, 2}
TableNames == {"t", "u"}

\* new Date().toISOString().replace(/[:.]/g, "-").slice(0, -5): the time
\* without its milliseconds
Timestamp(now) == now \div TicksPerSecond

\* getOutputFilePath(): outputFile in outputDir, or else
\* `${tableName}-export-${timestamp}.json` in outputDir
getOutputFilePath(options, now) ==
    IF options.outputFile # ""
    THEN <<options.outputFile>>
    ELSE <<options.tableName, "-export-", Timestamp(now), ".json">>

\* fs.writeFileSync(outputPath, jsonString)
WriteFile(d, path, content) ==
    [q \in DOMAIN d \cup {path} |-> IF q = path THEN content ELSE d[q]]

Exporter(tableName, tbl) ==
    [options |-> [tableName |-> tableName, outputFile |-> "", includeMetadata |-> TRUE],
     table |-> tbl, pc |-> "scan", items |-> <<>>, scannedCount |-> 0,
     lastEvaluatedKey |-> 0, outputPath |-> <<>>]

InitPair ==
    /\ keyAttr = "PK"
    /\ tables = [src |-> EmptyTable, dst |-> EmptyTable]
    /\ file = NoFile
    /\ opsLeft = 0
    /\ Idle
    /\ input = NoInput
    /\ output = <<>>
    /\ clock = 0
    /\ flight = NoFlight
    /\ disk = EmptyDisk
    /\ inst \in {[i \in Instances |-> IF i = 1 THEN Exporter("t", a) ELSE Exporter(name, b)] :
                    a \in TablesOver("PK", SrcData), b \in TablesOver("PK", SrcData),
                    name \in TableNames}

\* time passes
Tick ==
    /\ clock < MaxClock
    /\ clock' = clock + 1
    /\ UNCHANGED <<disk, inst, sessionVars, callVars, awaitVars>>

\* export() of exporter i: a page arrives; after the last one the document
\* is written to the path getOutputFilePath() gives at that time
PairScanPage(i) ==
    /\ inst[i].pc = "scan"
    /\ \E m \in (inst[i].lastEvaluatedKey + 1)..MaxKey :
          LET response == ScanResponse(inst[i].table, inst[i].lastEvaluatedKey, m, "none")
              items == inst[i].items \o response.Items
              scannedCount == inst[i].scannedCount + response.ScannedCount
              outputPath == getOutputFilePath(inst[i].options, clock)
          IN  IF MorePages(response)
              THEN /\ inst' = [inst EXCEPT ![i].items = items,
                                           ![i].scannedCount = scannedCount,
                                           ![i].lastEvaluatedKey = response.LastEvaluatedKey]
                   /\ disk' = disk
              ELSE /\ inst' = [inst EXCEPT ![i].items = items,
                                           ![i].scannedCount = scannedCount,
                                           ![i].lastEvaluatedKey = 0,
                                           ![i].pc = "done",
                                           ![i].outputPath = outputPath]
                   /\ disk' = WriteFile(disk, outputPath,
                          ExportDocument(inst[i].options.includeMetadata, items, scannedCount))
    /\ UNCHANGED <<clock, sessionVars, callVars, awaitVars>>

NextPair == Tick \/ \E i \in Instances : PairScanPage(i)

SpecPair == InitPair /\ [][NextPair]_vars

\* ----------------------------------------------------------------- import
\* const batchSize = options?.batchSize || 25
BatchSizeOf(option) == IF option = 0 THEN Ceiling ELSE option

IsArray(v) == v.t = "A"

\* import() from fs.existsSync to the end of the shape detection: the error
\* it throws, "none" when data has an accepted shape.  Reading a property
\* of null is a TypeError; a number, string or boolean has no properties.
ShapeError(data) ==
    IF data.kind = "nofile" THEN "FileNotFound"
    ELSE IF data.kind = "invalid" THEN "SyntaxError"
    ELSE IF data.kind = "array" THEN "none"
    ELSE IF data.kind = "null" THEN "TypeErrorNullData"
    ELSE IF Truthy(data.items) /\ IsArray(data.items) THEN "none"
    ELSE IF Truthy(data.itemsByType) THEN "none"
    ELSE "FormatError"

AcceptedShape(data) == ShapeError(data) = "none"

\* a shape detection that looks for itemsByType before items
ExtractItemsGroupedFirst(data) ==
    IF data.kind = "array" THEN data.elems
    ELSE IF Truthy(data.itemsByType)
    THEN FlatValues(data.itemsByType.v)
    ELSE IF Truthy(data.items) /\ IsArray(data.items) THEN data.items.v
    ELSE <<>>

\* let items = []; filled by the first branch of the shape detection that matches
ExtractItems(data) ==
    IF data.kind = "array" THEN data.elems
    ELSE IF Truthy(data.items) /\ IsArray(data.items) THEN data.items.v
    ELSE IF Truthy(data.itemsByType) THEN FlatValues(data.itemsByType.v)
    ELSE <<>>

\* the dry-run branch prints Object.keys(items[0]), which throws on null
DryRunThrows(items) == items[1] = NullItem

DryRunResult(items) == [imported |-> 0, failed |-> 0, skipped |-> Len(items)]

\* return { imported, failed, skipped: 0 }
ImportResult(imported, failed) ==
    [imported |-> imported, failed |-> failed, skipped |-> 0]

Min(a, b) == IF a < b THEN a ELSE b

Max(a, b) == IF a > b THEN a ELSE b

\* Array.prototype.slice's reading of an index: a negative one counts from
\* the end, and both are clamped to the array
SliceIndex(x, len) == IF x < 0 THEN Max(len + x, 0) ELSE Min(x, len)

\* a chunk that runs one record into the next chunk
SliceOverlapping(items, i, batchSize) ==
    LET from == SliceIndex(i, Len(items))
        to == SliceIndex(i + batchSize + 1, Len(items))
    IN  IF to <= from THEN <<>> ELSE SubSeq(items, from + 1, to)

\* items.slice(i, i + batchSize)
Slice(items, i, batchSize) ==
    LET from == SliceIndex(i, Len(items))
        to == SliceIndex(i + batchSize, Len(items))
    IN  IF to <= from THEN <<>> ELSE SubSeq(items, from + 1, to)

\* a pacing test that also holds after the last chunk of a full document
MoreChunksOffByOne(items, i, batchSize) == i + batchSize <= Len(items)

\* if (i + batchSize < items.length): another chunk follows
MoreChunks(items, i, batchSize) == i + batchSize < Len(items)

\* import() up to the first await: read, parse, detect the shape, dry run
ImportStart ==
    /\ MayStart
    /\ calls' = <<>>
    /\ pre' = [tables |-> tables, file |-> file]
    /\ \E dry \in BOOLEAN, bs \in BatchSizes, ow \in BOOLEAN :
          LET c == [NoCmd EXCEPT !.name = "import", !.dryRun = dry,
                                 !.batchSize = bs, !.overwrite = ow]
              items == ExtractItems(file)
              end(status, error, result) ==
                  /\ pc' = "idle"
                  /\ imp' = NoImp
                  /\ done' = Append(done,
                        [cmd |-> c, status |-> status, result |-> result,
                         calls |-> <<>>, error |-> error, pre |-> pre',
                         post |-> [tables |-> tables, file |-> file]])
          IN  /\ cmd' = c
              /\ IF ~AcceptedShape(file)
                 THEN end("raised", ShapeError(file), NoResult)
                 ELSE IF Len(items) = 0
                 THEN end("returned", "none", ImportResult(0, 0))
                 ELSE IF dry
                 THEN IF DryRunThrows(items)
                      THEN end("raised", "TypeErrorNullItem", NoResult)
                      ELSE end("returned", "none", DryRunResult(items))
                 ELSE /\ pc' = "write"
                      /\ imp' = [NoImp EXCEPT !.items = items,
                                              !.batchSize = BatchSizeOf(bs),
                                              !.j = 1]
                      /\ done' = done
    /\ opsLeft' = opsLeft - 1
    /\ UNCHANGED <<keyAttr, tables, file, exp, errs>>
    /\ UNCHANGED <<callVars, pairVars, awaitVars>>

\* a batch loop that gave up at the first failed chunk
AfterChunkAbort(imported, failed, log, newTables) ==
    /\ imp' = [imp EXCEPT !.imported = imported, !.failed = failed, !.j = 1]
    /\ IF failed > imp.failed
       THEN Finish("raised", NoResult, log, newTables, file)
       ELSE IF MoreChunks(imp.items, imp.i, imp.batchSize)
       THEN /\ pc' = "delay"
            /\ calls' = log
            /\ tables' = newTables
            /\ UNCHANGED <<file, done>>
       ELSE Finish("returned", ImportResult(imported, failed), log, newTables, file)

\* the end of one iteration of the batch loop: pace, or return the result
AfterChunk(imported, failed, log, newTables) ==
    /\ imp' = [imp EXCEPT !.imported = imported, !.failed = failed, !.j = 1]
    /\ IF MoreChunks(imp.items, imp.i, imp.batchSize)
       THEN /\ pc' = "delay"
            /\ calls' = log
            /\ tables' = newTables
            /\ UNCHANGED <<file, done>>
       ELSE Finish("returned", ImportResult(imported, failed), log, newTables, file)

\* what the store holds after putting the records of a batch, in order
RECURSIVE PutAll(_, _, _)
PutAll(tbl, ka, batch) ==
    IF batch = <<>> THEN tbl
    ELSE PutAll(Put(tbl, KeyOf(ka, Head(batch)), Head(batch)), ka, Tail(batch))

\* requests the store rejects whatever its state: more than 25 put requests,
\* an item that is no record, or two items with the same primary key
Rejected(ka, batch) ==
    \/ Len(batch) > Ceiling
    \/ Len(batch) = 0
    \/ \E n \in 1..Len(batch) : batch[n] = NullItem \/ ~HasKey(ka, batch[n])
    \/ \E a, b \in 1..Len(batch) :
          a # b /\ KeyAttrOf(ka, batch[a]) = KeyAttrOf(ka, batch[b])

\* the call log with one more call
Logged(log, call) ==
    IF Len(log) < Len(imp.items) + MaxRewind THEN Append(log, call) ELSE log

\* overwrite mode: one BatchWriteCommand for the chunk
ImportBatchWrite ==
    /\ pc = "write" /\ cmd.overwrite
    /\ LET batch == Slice(imp.items, imp.i, imp.batchSize)
           n == Len(batch)
       IN  \/ \* the call returns and every item is written
              /\ ~Rejected(keyAttr, batch)
              /\ AfterChunk(imp.imported + n, imp.failed,
                            Append(calls, Call("BatchWrite", TRUE, n, imp.i)),
                            [tables EXCEPT !.dst = PutAll(@, keyAttr, batch)])
              /\ errs' = errs
           \/ \* the call returns with UnprocessedItems: items u..n not written
              /\ ~Rejected(keyAttr, batch) /\ errs < MaxErrors
              /\ \E u \in 1..n :
                    AfterChunk(imp.imported + n, imp.failed,
                               Append(calls, Call("BatchWritePartial", TRUE, n, imp.i)),
                               [tables EXCEPT !.dst =
                                   PutAll(@, keyAttr, SubSeq(batch, 1, u - 1))])
              /\ errs' = errs + 1
           \/ \* the call throws: catch (error) { failed += batch.length }
              /\ Rejected(keyAttr, batch) \/ errs < MaxErrors
              /\ AfterChunk(imp.imported, imp.failed + n,
                            Logged(calls, Call("BatchWrite", FALSE, n, imp.i)),
                            tables)
              /\ errs' = IF Rejected(keyAttr, batch) THEN errs ELSE errs + 1
    /\ UNCHANGED <<keyAttr, cmd, exp, pre, opsLeft>>
    /\ UNCHANGED <<callVars, pairVars, awaitVars>>

\* ConditionExpression: "attribute_not_exists(PK) AND attribute_not_exists(id)",
\* evaluated on the stored record with the new record's primary key, if any
ConditionHolds(existing) == existing.PK = Absent /\ existing.id = Absent

\* insert-only mode: one conditional PutCommand for the next record of the chunk
ImportPut ==
    /\ pc = "write" /\ ~cmd.overwrite
    /\ LET batch == Slice(imp.items, imp.i, imp.batchSize)
           item == batch[imp.j]
           at == imp.i + imp.j - 1
           bad == Rejected(keyAttr, <<item>>)
           next(imported, log, newTables) ==
               IF imp.j < Len(batch)
               THEN /\ imp' = [imp EXCEPT !.imported = imported, !.j = @ + 1]
                    /\ calls' = log
                    /\ tables' = newTables
                    /\ UNCHANGED <<pc, file, done>>
               ELSE AfterChunk(imported, imp.failed, log, newTables)
       IN  \/ \* for (const item of batch) over an empty chunk: no put at all
              /\ batch = <<>>
              /\ AfterChunk(imp.imported, imp.failed, calls, tables)
              /\ errs' = errs
           \/ \* the put succeeds: imported++
              /\ batch # <<>>
              /\ ~bad /\ ConditionHolds(Get(tables.dst, KeyOf(keyAttr, item)))
              /\ next(imp.imported + 1, Append(calls, Call("Put", TRUE, 1, at)),
                      [tables EXCEPT !.dst = Put(@, KeyOf(keyAttr, item), item)])
              /\ errs' = errs
           \/ \* ConditionalCheckFailedException: continue
              /\ batch # <<>>
              /\ ~bad /\ ~ConditionHolds(Get(tables.dst, KeyOf(keyAttr, item)))
              /\ next(imp.imported, Append(calls, Call("PutConditionFailed", FALSE, 1, at)),
                      tables)
              /\ errs' = errs
           \/ \* any other error is thrown on to the chunk's catch
              /\ batch # <<>>
              /\ bad \/ errs < MaxErrors
              /\ AfterChunk(imp.imported, imp.failed + Len(batch),
                            Append(calls, Call("Put", FALSE, 1, at)), tables)
              /\ errs' = IF bad THEN errs ELSE errs + 1
    /\ UNCHANGED <<keyAttr, cmd, exp, pre, opsLeft>>
    /\ UNCHANGED <<callVars, pairVars, awaitVars>>

\* await new Promise((resolve) => setTimeout(resolve, 100)); then i += batchSize.
\* A loop counter below 0 is kept at -MaxRewind at the lowest: the chunk of
\* every negative counter is empty and the loop tests hold for it, so lower
\* values behave alike.  The count of delays and the call log stop growing
\* MaxRewind beyond the length of the document, which no loop that ends reaches.
ImportDelay ==
    /\ pc = "delay"
    /\ pc' = "write"
    /\ imp' = [imp EXCEPT !.i = Max(@ + imp.batchSize, 0 - MaxRewind),
                          !.delays = Min(@ + 1, Len(imp.items) + MaxRewind)]
    /\ UNCHANGED <<keyAttr, tables, file, cmd, exp, calls, pre, done, errs, opsLeft>>
    /\ UNCHANGED <<callVars, pairVars, awaitVars>>

\* ------------------------------------------------------- calls in flight
\* One operation of an exporter, seen at its awaits.  Every store call is
\* written "await this.docClient.send(command)": the call is sent, and the
\* operation is suspended until the call settles (returns or throws); the
\* pacing delay is "await new Promise(... setTimeout ...)".  pending counts
\* the calls sent and not settled, timers the delays running, and log lists
\* the events in order.
ScanOps == {"export", "exportByEntityType", "getItemCount"}

StartFlight(op, overwrite, n, batchSize) ==
    [NoFlight EXCEPT !.op = op, !.overwrite = overwrite, !.n = n,
                     !.batchSize = batchSize, !.j = 1, !.at = "send"]

\* an operation at its first store call: a scan loop, or the batch loop of a
\* live import of n records; the loop of a negative batch size is left to
\* SpecLive
InitAwait ==
    /\ flight \in {StartFlight(op, FALSE, 0, 0) : op \in ScanOps}
                  \cup {StartFlight("import", ow, n, BatchSizeOf(b)) :
                            ow \in BOOLEAN, n \in 1..(MaxDocLen + 1),
                            b \in {x \in BatchSizes : x >= 0}}
    /\ keyAttr = "PK"
    /\ tables = [src |-> EmptyTable, dst |-> EmptyTable]
    /\ file = NoFile
    /\ opsLeft = 0
    /\ Idle
    /\ input = NoInput
    /\ output = <<>>
    /\ clock = 0
    /\ disk = EmptyDisk
    /\ inst = <<>>

\* batch.length of the chunk the loop counter stands at
ChunkLen(f) == Len(Slice([p \in 1..f.n |-> p], f.i, f.batchSize))

\* a call that is sent without the operation waiting for it
SendCallUnawaited ==
    /\ flight.at = "send"
    /\ flight' = [flight EXCEPT !.pending = @ + 1, !.log = Append(@, "send")]
    /\ UNCHANGED <<sessionVars, callVars, pairVars>>

\* await this.docClient.send(command): the call is sent, the operation waits
SendCall ==
    /\ flight.at = "send"
    /\ flight' = [flight EXCEPT !.pending = @ + 1, !.at = "await",
                                !.log = Append(@, "send")]
    /\ UNCHANGED <<sessionVars, callVars, pairVars>>

\* a Scan settles: do { ... } while (lastEvaluatedKey), or the error is thrown
ScanSettles ==
    /\ flight.at = "await" /\ flight.op \in ScanOps
    /\ \E outcome \in {"more", "last", "error"} :
          /\ outcome = "more" => flight.pages + 1 < MaxKey
          /\ flight' = [flight EXCEPT
                !.pending = @ - 1,
                !.pages = @ + 1,
                !.at = IF outcome = "more" THEN "send" ELSE "end",
                !.log = Append(@, IF outcome = "error" THEN "err" ELSE "ok")]
    /\ UNCHANGED <<sessionVars, callVars, pairVars>>

\* the end of an iteration of the batch loop: the pacing delay, or the return
ChunkEnd(f) ==
    IF f.i + f.batchSize < f.n
    THEN [f EXCEPT !.at = "timer", !.timers = 1, !.log = Append(@, "timer")]
    ELSE [f EXCEPT !.at = "end"]

\* a BatchWrite or a conditional Put settles: the next record of the chunk
\* is put, or the chunk ends (a failed chunk ends in its catch)
WriteSettles ==
    /\ flight.at = "await" /\ flight.op = "import"
    /\ \E outcome \in {"ok", "condition", "error"} :
          /\ flight.overwrite => outcome # "condition"
          /\ LET g == [flight EXCEPT
                         !.pending = @ - 1,
                         !.log = Append(@, IF outcome = "ok" THEN "ok" ELSE "err")]
             IN  flight' =
                    IF flight.overwrite \/ outcome = "error" \/ flight.j = ChunkLen(flight)
                    THEN ChunkEnd(g)
                    ELSE [g EXCEPT !.j = @ + 1, !.at = "send"]
    /\ UNCHANGED <<sessionVars, callVars, pairVars>>

\* the timer of the pacing delay fires: i += batchSize, the next chunk
TimerFires ==
    /\ flight.at = "timer"
    /\ flight' = [flight EXCEPT !.timers = 0, !.i = @ + flight.batchSize, !.j = 1,
                                !.at = "send", !.log = Append(@, "fired")]
    /\ UNCHANGED <<sessionVars, callVars, pairVars>>

NextAwait ==
    \/ SendCall
    \/ ScanSettles
    \/ WriteSettles
    \/ TimerFires

SpecAwait == InitAwait /\ [][NextAwait]_vars

Next ==
    \/ ExportStart
    \/ ExportScanPage
    \/ GroupedScanPage
    \/ CountStart
    \/ CountPage
    \/ ScanFails
    \/ ImportStart
    \/ ImportBatchWrite
    \/ ImportPut
    \/ ImportDelay

Spec == Init /\ [][Next]_vars

\* one import of a user's array of up to MaxDocLen elements into an empty
\* table, in which every step that can be taken is taken: the store answers
\* every call and the timer of every delay fires
InitLive ==
    /\ keyAttr \in KeyAttrs
    /\ file \in {ArrayDoc(s) : s \in SeqsUpTo(DocElems(keyAttr), MaxDocLen)}
    /\ tables = [src |-> EmptyTable, dst |-> EmptyTable]
    /\ opsLeft = 1
    /\ Idle
    /\ SessionOnly

NextLive ==
    \/ ImportStart
    \/ ImportBatchWrite
    \/ ImportPut
    \/ ImportDelay

SpecLive == InitLive /\ [][NextLive]_vars /\ WF_vars(NextLive)

SpecSingle == InitSingle /\ [][Next]_vars

\* A session of two reading operations (exports and counts) on one table,
\* which therefore does not change.  They do not look at the key schema.
InitReads ==
    /\ keyAttr = "PK"
    /\ file = NoFile
    /\ tables \in {[src |-> s, dst |-> EmptyTable] : s \in TablesOver(keyAttr, SrcData)}
    /\ opsLeft = 2
    /\ Idle
    /\ SessionOnly

NextReads ==
    \/ ExportStart
    \/ ExportScanPage
    \/ GroupedScanPage
    \/ CountStart
    \/ CountPage
    \/ ScanFails

SpecReads == InitReads /\ [][NextReads]_vars

\* A session of two operations among the exports and the import: the import
\* that follows an export reads the document the export wrote.
InitRoundTrip ==
    /\ keyAttr \in KeyAttrs
    /\ file = NoFile
    /\ tables \in {[src |-> s, dst |-> EmptyTable] : s \in TablesOver(keyAttr, SrcData)}
    /\ opsLeft = 2
    /\ Idle
    /\ SessionOnly

NextRoundTrip ==
    \/ ExportStart
    \/ ExportScanPage
    \/ GroupedScanPage
    \/ ImportStart
    \/ ImportBatchWrite
    \/ ImportPut
    \/ ImportDelay

SpecRoundTrip == InitRoundTrip /\ [][NextRoundTrip]_vars

TypeOK ==
    /\ keyAttr \in KeyAttrs
    /\ pc \in {"idle", "scan", "write", "delay"}
    /\ Len(done) + opsLeft <= MaxOps
    /\ opsLeft \in 0..MaxOps
    /\ errs \in 0..MaxErrors

\* ------------------------------------------------------------ properties
Ops == 1..Len(done)

IsExport(d) == d.cmd.name \in {"export", "exportByEntityType"}
IsImport(d) == d.cmd.name = "import"
\* a live (not dry-run) import that returned
LiveImport(d) == IsImport(d) /\ ~d.cmd.dryRun /\ d.status = "returned"
\* the records of the document an import read
Input(d) == ExtractItems(d.pre.file)

\* a store call that failed with an error or reported unprocessed items
Faulty(c) == (c.op \in {"Scan", "BatchWrite", "Put"} /\ ~c.ok) \/ c.op = "BatchWritePartial"
NoStoreErrors(d) == \A n \in 1..Len(d.calls) : ~Faulty(d.calls[n])

RECURSIVE SumN(_, _)
\* the records of the calls of a log whose command is in ops
SumN(log, ops) ==
    IF log = <<>> THEN 0
    ELSE (IF Head(log).op \in ops THEN Head(log).n ELSE 0) + SumN(Tail(log), ops)

DistinctKeys(ka, items) ==
    /\ \A n \in 1..Len(items) : items[n] # NullItem
    /\ \A a, b \in 1..Len(items) :
          a # b => KeyAttrOf(ka, items[a]) # KeyAttrOf(ka, items[b])

\* C1: export() of a table, then import(exportedFile, {overwrite: true}) into
\* an empty table with no store errors, leaves the new table's records equal to
\* the source table's records.
C1_RoundTrip ==
    (/\ Len(done) = 2
     /\ done[1].cmd.name = "export" /\ done[1].status = "returned"
     /\ done[1].pre.tables.dst = EmptyTable
     /\ LiveImport(done[2]) /\ done[2].cmd.overwrite
     /\ NoStoreErrors(done[1]) /\ NoStoreErrors(done[2]))
    => Records(done[2].post.tables.dst) = Records(done[1].pre.tables.src)

\* C2: every live import of a document of N records returns counts with
\* imported + failed + skipped = N.
C2_ResultAccounting ==
    \A n \in Ops :
        LiveImport(done[n]) =>
            done[n].result.imported + done[n].result.failed + done[n].result.skipped
                = Len(Input(done[n]))

\* C3: importing the same N-record file twice with overwrite=false, into a
\* table that held none of its keys, with no store errors, returns imported = N,
\* skipped = 0 and then imported = 0, skipped = N.
C3_InsertOnlyIdempotent ==
    (/\ Len(done) = 2
     /\ LiveImport(done[1]) /\ ~done[1].cmd.overwrite
     /\ LiveImport(done[2]) /\ ~done[2].cmd.overwrite
     /\ done[1].pre.tables.dst = EmptyTable
     /\ DistinctKeys(keyAttr, Input(done[1]))
     /\ NoStoreErrors(done[1]) /\ NoStoreErrors(done[2]))
    => /\ done[1].result.imported = Len(Input(done[1]))
       /\ done[1].result.skipped = 0
       /\ done[2].result.imported = 0
       /\ done[2].result.skipped = Len(Input(done[2]))

\* C4: a dry-run import of an accepted document makes no store write call,
\* leaves the tables unchanged and returns imported = 0, skipped = the number
\* of records of the document.
C4_DryRun ==
    \A n \in Ops :
        (/\ IsImport(done[n]) /\ done[n].cmd.dryRun
         /\ AcceptedShape(done[n].pre.file))
        => /\ done[n].calls = <<>>
           /\ done[n].post.tables = done[n].pre.tables
           /\ done[n].status = "returned"
           /\ done[n].result.imported = 0
           /\ done[n].result.skipped = Len(Input(done[n]))

\* C5: every chunk handed to the store's batch write holds at most Ceiling
\* records: at most min(options.batchSize, Ceiling), the chunk size used.
C5_ChunkCeiling ==
    \A n \in 1..Len(calls) :
        calls[n].op \in {"BatchWrite", "BatchWritePartial"} =>
            /\ calls[n].n <= Ceiling
            /\ calls[n].n <= Min(BatchSizeOf(cmd.batchSize), Ceiling)

\* C6: an insert-only import never writes a record whose primary key already
\* exists: every record the table held before the import is still there,
\* unchanged, whatever the key attribute of the table.
C6_InsertOnlyNeverOverwrites ==
    (cmd.name = "import" /\ ~cmd.overwrite) =>
        \A k \in DOMAIN pre.tables.dst :
            Get(tables.dst, k) = pre.tables.dst[k]

\* C7: in insert-only mode an error of one conditional put fails that record
\* only: every record of the document is attempted, and failed counts exactly
\* the puts that raised an error.
C7_InsertOnlyIsolation ==
    \A n \in Ops :
        (LiveImport(done[n]) /\ ~done[n].cmd.overwrite) =>
            /\ Len(done[n].calls) = Len(Input(done[n]))
            /\ done[n].result.failed =
                  Cardinality({c \in 1..Len(done[n].calls) :
                                  done[n].calls[c].op = "Put" /\ ~done[n].calls[c].ok})

\* C8: in overwrite mode the records of a chunk whose batch put returned with
\* unprocessed items are reported as failed and not as imported.
C8_PartialBatchFails ==
    \A n \in Ops :
        (LiveImport(done[n]) /\ done[n].cmd.overwrite) =>
            /\ done[n].result.failed >= SumN(done[n].calls, {"BatchWritePartial"})
            /\ done[n].result.imported + SumN(done[n].calls, {"BatchWritePartial"})
                  <= Len(Input(done[n]))

ChunkCount(d) ==
    (Len(Input(d)) + BatchSizeOf(d.cmd.batchSize) - 1) \div BatchSizeOf(d.cmd.batchSize)

ChunkStart(d, c) == (c - 1) * BatchSizeOf(d.cmd.batchSize)

\* an import that reached its batch loop
LoopedImport(d) ==
    /\ IsImport(d) /\ ~d.cmd.dryRun
    /\ AcceptedShape(d.pre.file) /\ Len(Input(d)) > 0

\* C9: a failed chunk never stops import(): the k chunks of the document are
\* each submitted once, in file order, and import() returns a result.
C9_BestEffortImport ==
    \A n \in Ops :
        LET d == done[n] IN
        LoopedImport(d) =>
            /\ d.status = "returned"
            /\ \A a, b \in 1..Len(d.calls) : a < b => d.calls[a].at < d.calls[b].at
            /\ \A c \in 1..ChunkCount(d) :
                  \E a \in 1..Len(d.calls) : d.calls[a].at = ChunkStart(d, c)
            /\ d.cmd.overwrite =>
                  /\ Len(d.calls) = ChunkCount(d)
                  /\ \A c \in 1..ChunkCount(d) :
                        d.calls[c].n =
                            Len(Slice(Input(d), ChunkStart(d, c), BatchSizeOf(d.cmd.batchSize)))

\* a failed first chunk was followed by the submission of a later chunk
C9_Witness ==
    \E n \in Ops :
        /\ LoopedImport(done[n]) /\ done[n].status = "returned"
        /\ Len(done[n].calls) >= 2
        /\ Faulty(done[n].calls[1])
        /\ done[n].calls[2].at >= BatchSizeOf(done[n].cmd.batchSize)
        /\ done[n].result.failed > 0

Parsed(data) == data.kind \in {"null", "scalar", "array", "object"}

\* the three accepted shapes: a bare array, an object whose items is an array,
\* an object with an itemsByType map
IsBareArray(data) == data.kind = "array"
HasItemsArray(data) == data.kind = "object" /\ data.items.t = "A"
HasGroups(data) == data.kind = "object" /\ data.itemsByType.t = "M"
OneOfThree(data) == IsBareArray(data) \/ HasItemsArray(data) \/ HasGroups(data)

\* C11: import() of a parsed document that has none of the three accepted
\* shapes (null, a scalar, an object without an items array and without
\* itemsByType) fails with the format error and makes no store call, in dry-run
\* and in live mode.
C11_FormatRejection ==
    \A n \in Ops :
        LET d == done[n] IN
        (IsImport(d) /\ Parsed(d.pre.file) /\ ~OneOfThree(d.pre.file)) =>
            /\ d.status = "raised"
            /\ d.error = "FormatError"
            /\ d.calls = <<>>
            /\ d.post.tables = d.pre.tables

\* the record list of a document, by the order of the three shapes
ListByPriority(data) ==
    IF IsBareArray(data) THEN data.elems
    ELSE IF HasItemsArray(data) THEN data.items.v
    ELSE FlatValues(data.itemsByType.v)

PageEnd(c) == IF c.cursor = 0 THEN MaxKey ELSE c.cursor

\* the Items of the logged pages a..Len(log) of a scan of tbl, concatenated
RECURSIVE PagesFrom(_, _, _, _)
PagesFrom(tbl, log, a, filterExpression) ==
    IF a > Len(log) THEN <<>>
    ELSE ScanResponse(tbl, log[a].at, PageEnd(log[a]), filterExpression).Items
            \o PagesFrom(tbl, log, a + 1, filterExpression)

\* the exported records of a document export() wrote
Exported(data) == IF data.kind = "array" THEN data.elems ELSE data.items.v

\* how often a record with primary key k occurs in a list of records
Occurrences(ka, items, k) ==
    Cardinality({n \in 1..Len(items) : KeyAttrOf(ka, items[n]) = KeyVal(ka, k)})

\* request 1 starts without cursor, request N+1 with the cursor of page N
CursorChained(log) ==
    /\ log # <<>> => log[1].at = 0
    /\ \A a \in 1..(Len(log) - 1) : log[a + 1].at = log[a].cursor

ReturnedExport(d) == d.cmd.name = "export" /\ d.status = "returned"

\* the scan part of C13: the cursors are chained, the loop stops at the first
\* page without cursor, and the document holds the pages' items in scan order
ScanDrained(d) ==
    /\ CursorChained(d.calls)
    /\ \A a \in 1..Len(d.calls) : d.calls[a].cursor = 0 <=> a = Len(d.calls)
    /\ Exported(d.post.file) =
          StringifyAll(PagesFrom(d.pre.tables.src, d.calls, 1, d.cmd.filterExpression))

RECURSIVE SumScanned(_)
\* the sum of the ScannedCount of the pages of a log
SumScanned(log) ==
    IF log = <<>> THEN 0 ELSE Head(log).scanned + SumScanned(Tail(log))

\* C14: the scannedCount export() records (the sum of the pages' scanned
\* counts) equals what getItemCount() returns on the same table, with and
\* without a filter expression.
C14_CountAgreement ==
    \A m, n \in Ops :
        (/\ ReturnedExport(done[m]) /\ done[m].cmd.includeMetadata
         /\ done[n].cmd.name = "getItemCount" /\ done[n].status = "returned"
         /\ done[m].pre.tables.src = done[n].pre.tables.src)
        => /\ done[m].post.file.metadata.scannedCount = done[n].result
           /\ done[m].post.file.metadata.scannedCount
                 = SumScanned(done[m].calls)

\* a filtered export that dropped a record, and a count, of the same table
C14_Witness ==
    /\ Len(done) = 2
    /\ ReturnedExport(done[1]) /\ done[1].cmd.includeMetadata
    /\ done[1].cmd.filterExpression # "none"
    /\ done[1].post.file.metadata.itemCount < done[1].post.file.metadata.scannedCount
    /\ Len(done[1].calls) = 2
    /\ done[2].cmd.name = "getItemCount" /\ done[2].status = "returned"
    /\ Len(done[2].calls) = 2
    /\ done[2].result = MaxKey

\* C15: for every record, extractEntityType returns a non-empty string, and
\* the same one each time it is called on the record.
C15_ClassifierTotal ==
    input.fn = "extractEntityType" =>
        \A n \in 1..Len(output) :
            /\ output[n].t = "S"
            /\ output[n].v # <<>>
            /\ output[n] = output[1]

\* the result of the four rules in the order of C16
ByRuleOrder(item) ==
    IF IsString(item.PK) /\ MatchTag(item.PK.v) > 0
    THEN Str(SubSeq(item.PK.v, 1, MatchTag(item.PK.v)))
    ELSE IF IsString(item.SK) /\ MatchTag(item.SK.v) > 0
    THEN Str(SubSeq(item.SK.v, 1, MatchTag(item.SK.v)))
    ELSE IF Truthy(item.entityType)
    THEN item.entityType
    ELSE IF IsString(item.id) /\ \E n \in 1..Len(item.id.v) : item.id.v[n] = "-"
    THEN Str(ToUpperCase(SubSeq(item.id.v, 1, FirstDash(item.id.v, 1) - 1)))
    ELSE Str(<<"U", "N", "K", "N", "O", "W", "N">>)

\* C16: extractEntityType returns the tag before "#" of PK, else of SK, else
\* the entityType attribute, else (only for an id that contains "-") the
\* upper-cased first segment of id, else "UNKNOWN".
C16_ClassifierRuleOrder ==
    input.fn = "extractEntityType" =>
        \A n \in 1..Len(output) : output[n] = ByRuleOrder(input.arg)

\* the groups of the document exportByEntityType() wrote
GroupsOf(d) == d.post.file.itemsByType.v

\* the places (group, position) where the record with primary key k stands
PlacesOf(ka, groups, k) ==
    {<<g, n>> \in (1..Len(groups)) \X (1..MaxKey) :
        /\ n <= Len(groups[g].items)
        /\ KeyAttrOf(ka, groups[g].items[n]) = KeyVal(ka, k)}

RECURSIVE SumSizes(_)
SumSizes(groups) ==
    IF groups = <<>> THEN 0 ELSE Len(Head(groups).items) + SumSizes(Tail(groups))

\* C17: exportByEntityType() without store error writes a document in which
\* every record of the table stands in exactly one group, the group named
\* extractEntityType(record), whatever the classifier returns; totalItems is
\* the number of records and the sum of the group sizes, entityTypes is the
\* number of groups, the groups have different names and none is empty.
C17_GroupedConsistent ==
    \A n \in Ops :
        LET d == done[n]
            tbl == d.pre.tables.src
        IN  (d.cmd.name = "exportByEntityType" /\ NoStoreErrors(d)) =>
                /\ d.status = "returned"
                /\ \A k \in Keys :
                      IF k \in DOMAIN tbl
                      THEN \E p \in PlacesOf(keyAttr, GroupsOf(d), k) :
                              /\ PlacesOf(keyAttr, GroupsOf(d), k) = {p}
                              /\ GroupsOf(d)[p[1]].type
                                    = PropertyKey(extractEntityType(tbl[k]))
                      ELSE PlacesOf(keyAttr, GroupsOf(d), k) = {}
                /\ d.post.file.metadata.totalItems = Cardinality(DOMAIN tbl)
                /\ d.post.file.metadata.totalItems = SumSizes(GroupsOf(d))
                /\ d.post.file.metadata.entityTypes = Len(GroupsOf(d))
                /\ \A g \in 1..Len(GroupsOf(d)) : GroupsOf(d)[g].items # <<>>
                /\ \A g, h \in 1..Len(GroupsOf(d)) :
                      g # h => GroupsOf(d)[g].type # GroupsOf(d)[h].type

\* a store call that failed although the store would have taken the request
Unreachable(d) ==
    /\ d.calls # <<>>
    /\ Len(d.calls) = errs
    /\ \A c \in 1..Len(d.calls) : d.calls[c].op \in {"BatchWrite", "Put"} /\ ~d.calls[c].ok

\* C18: the import command (import() as main calls it, without batchSize)
\* exits with 0 whenever import() returns, and with 1 when the file is
\* missing, the document is malformed, or the backend is unreachable (every
\* store call fails).
C18_ImportExitCodes ==
    \A n \in Ops :
        LET d == done[n] IN
        (IsImport(d) /\ d.cmd.batchSize = 0) =>
            /\ d.status = "returned" => ExitCode(d.status) = 0
            /\ d.pre.file.kind \in {"nofile", "invalid"} => ExitCode(d.status) = 1
            /\ (Parsed(d.pre.file) /\ ~OneOfThree(d.pre.file)) => ExitCode(d.status) = 1
            /\ (Len(done) = 1 /\ Unreachable(d)) => ExitCode(d.status) = 1

\* C19: a command line whose first argument without "-" is none of export,
\* import, count, help (in any case) ends with exit code 1.
C19_UnknownCommand ==
    input.fn = "main" =>
        LET commandIndex == FindCommandIndex(input.arg, 1) IN
        (/\ commandIndex # 0
         /\ ToLowerCase(input.arg[commandIndex]) \notin {"export", "import", "count", "help"})
        => \A n \in 1..Len(output) :
              output[n].runs = "none" /\ output[n].exit = 1

\* the document exporter i writes when it runs alone
AloneDocument(i) ==
    ExportDocument(inst[i].options.includeMetadata,
                   PageItems(inst[i].table, 0, MaxKey),
                   Cardinality(DOMAIN inst[i].table))

\* C20: of two exporters that run at the same time, each leaves on disk, at the
\* path it wrote, the document it would have written running alone.
C20_InstanceIsolation ==
    \A i \in DOMAIN inst :
        inst[i].pc = "done" =>
            /\ inst[i].outputPath \in DOMAIN disk
            /\ disk[inst[i].outputPath] = AloneDocument(i)

\* the positions of a document whose chunk failed in import d
FailedPositions(d) ==
    {p \in 1..Len(Input(d)) :
        \E c \in 1..Len(d.calls) :
            /\ ~d.calls[c].ok
            /\ p > d.calls[c].at /\ p <= d.calls[c].at + d.calls[c].n}

\* C21: after an overwrite import in which some chunks failed, into a table
\* that held none of the file's keys, a second import of the same file with
\* overwrite=false and no store error imports exactly the records the first
\* run did not write, as many as the first run reported failed, leaves the
\* others as they are, and the table then holds every record of the file.
C21_RecoveryByRerun ==
    (/\ Len(done) = 2
     /\ LiveImport(done[1]) /\ done[1].cmd.overwrite /\ done[1].result.failed > 0
     /\ LiveImport(done[2]) /\ ~done[2].cmd.overwrite /\ NoStoreErrors(done[2])
     /\ DistinctKeys(keyAttr, Input(done[1]))
     /\ \A p \in 1..Len(Input(done[1])) :
           Get(done[1].pre.tables.dst, KeyOf(keyAttr, Input(done[1])[p])) = NoItem)
    => /\ done[2].result.imported = done[1].result.failed
       /\ SumN(done[2].calls, {"Put"}) = Cardinality(FailedPositions(done[1]))
       /\ \A p \in 1..Len(Input(done[2])) :
             Get(done[2].post.tables.dst, KeyOf(keyAttr, Input(done[2])[p]))
                 = Input(done[2])[p]

\* the records of a grouped document, whatever their group
GroupedRecords(data) == FlatValues(data.itemsByType.v)

\* C22: export() and exportByEntityType() with the same options on the same
\* table write the same records: each record as often in the groups of the
\* one as in the items of the other.
C22_GroupedScanEquivalent ==
    \A m, n \in Ops :
        (/\ ReturnedExport(done[m])
         /\ done[n].cmd.name = "exportByEntityType" /\ done[n].status = "returned"
         /\ done[m].cmd.filterExpression = done[n].cmd.filterExpression
         /\ done[m].pre.tables.src = done[n].pre.tables.src)
        => \A k \in Keys :
              Occurrences(keyAttr, GroupedRecords(done[n].post.file), k)
                  = Occurrences(keyAttr, Exported(done[m].post.file), k)

\* C27: a live import of N records returns imported + failed <= N.
C27_NoDoubleCounting ==
    \A n \in Ops :
        LiveImport(done[n]) =>
            done[n].result.imported + done[n].result.failed <= Len(Input(done[n]))

\* ceil(n / b) for a batch size b >= 1
CeilDiv(n, b) == (n + b - 1) \div b

\* C23: a live import of k chunks makes exactly k-1 pacing delays, one after
\* each chunk but the last, whether the chunks succeed or fail: chunk c is
\* issued after c-1 delays, a delay is only made while a chunk is still to
\* come, and import() returns after k-1 delays.
C23_Pacing ==
    LET b == imp.batchSize
        k == CeilDiv(Len(imp.items), b)
    IN  /\ (pc \in {"write", "delay"} /\ b >= 1) =>
              /\ imp.i = imp.delays * b
              /\ imp.delays < k
        /\ (pc = "delay" /\ b >= 1) => imp.delays + 1 < k
        /\ (pc = "idle" /\ Len(done) >= 1 /\ LoopedImport(done[Len(done)])) =>
              imp.delays = ChunkCount(done[Len(done)]) - 1

\* an import of two chunks whose first chunk failed has returned after one delay
C23_Witness ==
    /\ pc = "idle" /\ Len(done) >= 1
    /\ LoopedImport(done[Len(done)])
    /\ ChunkCount(done[Len(done)]) = 2
    /\ Faulty(done[Len(done)].calls[1])
    /\ imp.delays = 1

\* C24: a live import of N records with batch size b >= 1 submits them in
\* ceil(N/b) contiguous chunks in file order, each of b records but for a
\* last one holding the remainder, so that every record is in exactly one
\* chunk; with no store error an overwrite import returns imported = N,
\* failed = 0, skipped = 0.
C24_ChunkPartition ==
    \A n \in Ops :
        LET d == done[n]
            N == Len(Input(d))
            b == BatchSizeOf(d.cmd.batchSize)
            k == CeilDiv(N, b)
        IN  (LoopedImport(d) /\ b >= 1) =>
              /\ d.cmd.overwrite =>
                    /\ Len(d.calls) = k
                    /\ \A c \in 1..k :
                          /\ d.calls[c].at = (c - 1) * b
                          /\ d.calls[c].n = IF c < k THEN b ELSE N - (k - 1) * b
                    /\ SumN(d.calls, {"BatchWrite", "BatchWritePartial"}) = N
                    /\ NoStoreErrors(d) =>
                          d.result = [imported |-> N, failed |-> 0, skipped |-> 0]
              /\ (~d.cmd.overwrite /\ NoStoreErrors(d)) =>
                    /\ Len(d.calls) = N
                    /\ \A p \in 1..N : d.calls[p].at = p - 1

\* Ceiling + LongExtra records went in a chunk of Ceiling and a last chunk of
\* the remainder, and all were imported
C24_Witness ==
    \E n \in Ops :
        /\ LoopedImport(done[n]) /\ done[n].cmd.overwrite
        /\ Len(Input(done[n])) = LongLen
        /\ Len(done[n].calls) = 2
        /\ done[n].calls[1].n = Ceiling
        /\ done[n].calls[2].n = LongLen - Ceiling
        /\ done[n].result = [imported |-> LongLen, failed |-> 0, skipped |-> 0]

\* an import is in its batch loop
ImportRunning == pc \in {"write", "delay"}

\* C28: a live import terminates, whatever options.batchSize is: an import
\* in its batch loop leaves it.
C28_ImportTerminates == ImportRunning ~> (pc = "idle")

\* C25: in every command of main(), on success and on failure, the exporter's
\* close() is executed before the process ends.
C25_GuaranteedRelease ==
    input.fn = "command" =>
        \A n \in 1..Len(output) :
            \E p \in 1..Len(output[n]) : output[n][p] = "exporter.close"

\* C29: the limit option bounds the records each Scan request evaluates and
\* nothing else: export() with a limit >= 1 scans on until a page comes
\* without cursor, and writes the records export() without limit writes for
\* the same table and filter.
C29_LimitPerPage ==
    /\ (pc = "scan" /\ cmd.name = "export" /\ cmd.limit >= 1) =>
          \A a \in 1..Len(calls) : calls[a].scanned <= cmd.limit /\ calls[a].cursor # 0
    /\ \A n \in Ops :
          (ReturnedExport(done[n]) /\ done[n].cmd.limit >= 1) =>
              /\ \A a \in 1..Len(done[n].calls) :
                    /\ done[n].calls[a].scanned <= done[n].cmd.limit
                    /\ done[n].calls[a].cursor = 0 <=> a = Len(done[n].calls)
              /\ SumScanned(done[n].calls) = Cardinality(DOMAIN done[n].pre.tables.src)
    /\ \A m, n \in Ops :
          (/\ ReturnedExport(done[m]) /\ done[m].cmd.limit >= 1
           /\ ReturnedExport(done[n]) /\ done[n].cmd.limit = 0
           /\ done[m].cmd.filterExpression = done[n].cmd.filterExpression
           /\ done[m].pre.tables.src = done[n].pre.tables.src)
          => Exported(done[m].post.file) = Exported(done[n].post.file)

\* an export with limit 1 read a full table in MaxKey pages of one record, and
\* an export without limit read the same table in one page
C29_Witness ==
    /\ Len(done) = 2
    /\ ReturnedExport(done[1]) /\ done[1].cmd.limit = 1
    /\ ReturnedExport(done[2]) /\ done[2].cmd.limit = 0
    /\ DOMAIN done[1].pre.tables.src = Keys
    /\ Len(done[1].calls) = MaxKey
    /\ Len(done[2].calls) = 1
    /\ Len(Exported(done[2].post.file)) = MaxKey

\* the keys of the records an export writes: those that pass the filter
\* expression in export(), all of them in exportByEntityType()
ExportedKeys(d) ==
    {k \in DOMAIN d.pre.tables.src :
        d.cmd.grouped \/ Matches(d.cmd.filterExpression, d.pre.tables.src[k])}

\* items holds the written form of each exported record once, and no more
HoldsExported(items, d) ==
    /\ Len(items) = Cardinality(ExportedKeys(d))
    /\ \A k \in ExportedKeys(d) :
          \E p \in 1..Len(items) : items[p] = JSONstringify(d.pre.tables.src[k])

\* C30: every document export() and exportByEntityType() write (with
\* metadata, as a bare array, grouped; of an empty table too) has a shape
\* import() accepts, import() reads from it the exported records, each once,
\* and an import of it returns: a dry run with skipped = the number of
\* exported records, a live run after submitting every one of them.
C30_OwnOutputImportable ==
    /\ \A n \in Ops :
          (IsExport(done[n]) /\ done[n].status = "returned") =>
              /\ AcceptedShape(done[n].post.file)
              /\ HoldsExported(ExtractItems(done[n].post.file), done[n])
    /\ (Len(done) >= 1 /\ IsExport(done[1]) /\ done[1].status = "returned"
           /\ pc = "write") =>
          HoldsExported(imp.items, done[1])
    /\ (Len(done) = 2 /\ IsExport(done[1]) /\ done[1].status = "returned"
           /\ IsImport(done[2])) =>
          LET N == Cardinality(ExportedKeys(done[1]))
              d == done[2]
          IN  /\ d.status = "returned"
              /\ d.cmd.dryRun =>
                    d.result = [imported |-> 0, failed |-> 0, skipped |-> N]
              /\ (~d.cmd.dryRun /\ d.cmd.overwrite) =>
                    SumN(d.calls, {"BatchWrite", "BatchWritePartial"}) = N
              /\ (~d.cmd.dryRun /\ ~d.cmd.overwrite /\ NoStoreErrors(d)) =>
                    Len(d.calls) = N

\* a grouped export of a full table was imported whole
C30_Witness ==
    /\ Len(done) = 2
    /\ done[1].cmd.name = "exportByEntityType" /\ done[1].status = "returned"
    /\ Cardinality(ExportedKeys(done[1])) = MaxKey
    /\ LiveImport(done[2]) /\ done[2].cmd.overwrite
    /\ done[2].result = [imported |-> MaxKey, failed |-> 0, skipped |-> 0]

====
